---- MODULE Spec2Model ----
(***************************************************************************)
(* ChainTalk: the shared registry (sessions and rooms), the room broadcast *)
(* with bounded history, the one-time challenge store, and the             *)
(* per-connection actor of the WebSocket server.                           *)
(*                                                                         *)
(* One action is one critical section of the code: the body of a registry  *)
(* method between acquiring and releasing its guards, or one round trip to *)
(* the challenge store.  The steps of a handler that lie between two await *)
(* points interleave with the steps of the other connections.              *)
(***************************************************************************)
EXTENDS Integers, Sequences, FiniteSets, TLC

(* ------------------------------ bounds -------------------------------- *)

\* text frames and login requests the server receives in all
MaxFrames == 3
\* authenticate commands and login requests received in all in the
\* authentication specification
MaxAttempts == 2
\* messages published in the history specification
MaxPublish == 150
\* swap logs the chain emits in the chain specification
MaxLogs == 1
\* the widths of I256 and of u128, scaled down from 256 and 128 bits
I256Bits == 6
U128Bits == 4
\* logs the subscription yields in the bridge specification
MaxStream == 3
\* messages published on the global channel in the global specification
MaxGlobal == 5
\* messages published on the global channel, and frames received, in the
\* feed specification
MaxFeed == 3
MaxFeedFrames == 1

(* --------------------------- program constants ------------------------ *)

\* Room.max_history as set by AppState::new and join_room
max_history == 100

\* handle_swap_event's threshold, 10^18 in the source, scaled down with the
\* widths: as in the source it is well inside the range of u128
threshold == 4

\* handle_send_text's limit on text.len()
max_text_len == 1000

\* the capacity of AppState.global_sender, broadcast::channel(1000) in the
\* source, scaled down so that a receiver can fall that far behind
global_capacity == 2

Conns == {"c1", "c2"}
\* the listener tasks main spawns: the first and the second
Listeners == {"l1", "l2"}
Logins == {"h1"}
Callers == Conns \cup Logins
Addrs == {"0xA", "0xB"}
Rooms == {"general", "r1"}
\* the tokens generate_nonce may return, in the order it returns them, and a
\* token it never returns
Tokens == <<"n1", "n2">>
Nonces == {"n1", "n2", "nX"}
NoNonce == "-"
None == "None"

VARIABLES
    store,          \* the keys nonce:<token> present in the key-value service
    issued,         \* the tokens generate_nonce has returned so far
    okCount,        \* per token, the verifications that returned Ok (history)
    expired,        \* the tokens whose key the service dropped when its TTL
                    \* ran out (history)
    clients,        \* AppState.clients: user_address -> Client
    rooms,          \* AppState.rooms: room_name -> Room
    pc,             \* where each connection task or login request stands
    user_address,   \* handle_connection's local user_address
    authenticated,  \* handle_connection's local authenticated
    req,            \* the frame or request being handled, with its locals
    res,            \* the error or response a caller is about to be sent
    frames,         \* text frames and login requests received so far
    rooms_to_leave, \* remove_client's local rooms_to_leave
    removeCalls,    \* remove_client calls made by each connection (history)
    shared,         \* whether another connection held the same address while
                    \* this one did (history)
    joined,         \* the rooms each connection's session joined (history)
    spawned,        \* broadcast tasks spawned by handle_send_text, not yet run
    sent,           \* the messages published in the history specification
    guard,          \* the two RwLocks of AppState, in the guard specification
    task,           \* the tasks of the guard specification
    client_receiver, \* handle_connection's local client_receiver: the id of
                    \* the session whose sender it subscribed to
    mailbox,        \* messages sent to each connection's client_receiver and
                    \* not yet forwarded to its client
    logs,           \* the swap logs the chain has emitted so far
    listener,       \* the BlockchainListener tasks main has spawned
    global_feed,    \* the messages sent on AppState.global_sender so far
    global_next,    \* per connection, the next item of its global_receiver
    global_seen,    \* per connection, the global items forwarded to its client
    global_lagged   \* per connection, the items its global_receiver was told
                    \* it missed: the sum of its RecvError::Lagged(n)

vars == <<store, issued, okCount, expired, clients, rooms, pc, user_address,
          authenticated, req, res, frames, rooms_to_leave, removeCalls,
          shared, joined, spawned, sent, guard, task, client_receiver,
          mailbox, logs, listener, global_feed, global_next, global_seen,
          global_lagged>>

authVars == <<store, issued, okCount, expired>>
mailVars == <<client_receiver, mailbox>>
chainVars == <<logs, listener, global_feed, global_next, global_seen,
               global_lagged>>
connVars == <<pc, user_address, authenticated, req, res, frames,
              rooms_to_leave, removeCalls, shared, joined, spawned,
              mailVars, chainVars>>
lockVars == <<guard, task>>
\* shared is a history of the others and is set by Next itself
connVars_noshared == <<pc, user_address, authenticated, req, res, frames,
                       rooms_to_leave, removeCalls, joined, spawned,
                       mailVars, chainVars>>

(* ----------------------------- messages ------------------------------- *)

user_joined(user, room) == [type |-> "UserJoined", user |-> user, room |-> room]
user_left(user, room) == [type |-> "UserLeft", user |-> user, room |-> room]
new_text(from, text, room) ==
    [type |-> "NewText", from |-> from, text |-> text, room |-> room]

(* ----------------------------- registry ------------------------------- *)

NewRoom(name) == [name |-> name, users |-> {}, message_history |-> <<>>]

\* AppState::new: the default room exists from the start
InitRooms == [r \in {"general"} |-> NewRoom(r)]
InitClients == [a \in {} |-> None]

NewClient(id, addr) == [id |-> id, user_address |-> addr, current_rooms |-> {}]

\* a variant of add_client that keeps the entry an address already has
add_client_keep(cl, addr, id) ==
    IF addr \in DOMAIN cl THEN cl
    ELSE [a \in DOMAIN cl \cup {addr} |-> IF a = addr THEN NewClient(id, addr) ELSE cl[a]]

\* add_client: clients.insert(user_address, client) replaces any prior entry
add_client(cl, addr, id) ==
    [a \in DOMAIN cl \cup {addr} |-> IF a = addr THEN NewClient(id, addr) ELSE cl[a]]

\* remove_client, first part: clients.remove(user_address)
remove_entry(cl, addr) == [a \in DOMAIN cl \ {addr} |-> cl[a]]

\* join_room on the room map: create the room if absent, insert the user
join_room_rooms(rm, addr, room) ==
    LET rm1 == IF room \in DOMAIN rm THEN rm
               ELSE [r \in DOMAIN rm \cup {room} |->
                        IF r = room THEN NewRoom(room) ELSE rm[r]]
    IN [rm1 EXCEPT ![room].users = @ \cup {addr}]

\* join_room on the session map: record the room if the client exists
join_room_clients(cl, addr, room) ==
    IF addr \in DOMAIN cl
    THEN [cl EXCEPT ![addr].current_rooms = @ \cup {room}]
    ELSE cl

\* join_room's return value
join_room_result(cl, addr) == addr \in DOMAIN cl

\* a variant of leave_room_rooms that leaves the member set as it is
leave_room_rooms_keep(rm, addr, room) == rm

\* a variant of leave_room_rooms that deletes a room its last member left
leave_room_rooms_prune(rm, addr, room) ==
    IF room \in DOMAIN rm /\ rm[room].users \subseteq {addr}
    THEN [r \in DOMAIN rm \ {room} |-> rm[r]]
    ELSE IF room \in DOMAIN rm THEN [rm EXCEPT ![room].users = @ \ {addr}]
    ELSE rm

\* leave_room on the room map
leave_room_rooms(rm, addr, room) ==
    IF room \in DOMAIN rm THEN [rm EXCEPT ![room].users = @ \ {addr}] ELSE rm

\* a variant of leave_room_clients that leaves the session's rooms as they are
leave_room_clients_keep(cl, addr, room) == cl

\* leave_room on the session map
leave_room_clients(cl, addr, room) ==
    IF addr \in DOMAIN cl
    THEN [cl EXCEPT ![addr].current_rooms = @ \ {room}]
    ELSE cl

\* a variant of push_history that trims one entry too late
push_history_late(h, m) ==
    LET h1 == Append(h, m)
    IN IF Len(h1) > max_history + 1 THEN Tail(h1) ELSE h1

\* a variant of push_history that evicts the newest entry instead of the oldest
push_history_newest(h, m) ==
    LET h1 == Append(h, m)
    IN IF Len(h1) > max_history THEN SubSeq(h1, 1, Len(h1) - 1) ELSE h1

\* broadcast_to_room on one history: push, then remove(0) past max_history
push_history(h, m) ==
    LET h1 == Append(h, m)
    IN IF Len(h1) > max_history THEN Tail(h1) ELSE h1

\* broadcast_to_room on the room map: nothing happens for an unknown room
broadcast_to_room_rooms(rm, room, m) ==
    IF room \in DOMAIN rm
    THEN [rm EXCEPT ![room].message_history = push_history(@, m)]
    ELSE rm


\* Sender::send on the channel of the session with this id: every receiver
\* subscribed to it gets the message
sender_send(mb, cr, id) ==
    [c \in Conns |-> IF cr[c] = id THEN mb[c] + 1 ELSE mb[c]]

\* if let Some(client) = get_client(addr) { client.sender.send(message) }
send_to_client(mb, cr, cl, addr) ==
    IF addr \in DOMAIN cl THEN sender_send(mb, cr, cl[addr].id) ELSE mb

\* a variant of broadcast_to_room_mailbox that delivers to every connection
broadcast_to_room_mailbox_all(mb, cr, cl, rm, room) ==
    [c \in Conns |-> mb[c] + 1]

\* broadcast_to_room on the mailboxes: one send to the sender of every
\* member of the room that has a session
broadcast_to_room_mailbox(mb, cr, cl, rm, room) ==
    IF room \in DOMAIN rm
    THEN [c \in Conns |->
            mb[c] + Cardinality({a \in rm[room].users \cap DOMAIN cl :
                                   cl[a].id = cr[c]})]
    ELSE mb

\* once the loop of a connection has ended its client_receiver is never
\* polled again, and it is dropped with the task
drop_receiver(cr, c) == [cr EXCEPT ![c] = None]
drop_mailbox(mb, c) == [mb EXCEPT ![c] = 0]

(* ------------------------- frames and outcomes ------------------------ *)

NoReq == [type |-> "None", parse |-> "-", nonce |-> NoNonce, addr |-> None,
          sig |-> "-", room |-> "-", text |-> "-"]

\* message_str.parse::<Message>(): a statement parses as it stands ("ok"),
\* or only once its addresses are in checksum form ("lower"), or not at all
siwe_parse(p) == p = "ok"

\* normalize_siwe_message: every 40-hex-digit address rewritten to its
\* checksum form
normalize_siwe_message(p) == IF p = "lower" THEN "ok" ELSE p

\* a variant of siwe_parses that takes every statement as parsed
siwe_parses_any(p) == TRUE

\* verify_siwe_message up to its nonce check: parse, and on failure
\* normalize and parse once more
siwe_parses(p) == siwe_parse(p) \/ siwe_parse(normalize_siwe_message(p))

\* the command as the handler goes on with it: the parsed Message of a
\* structured statement
parsed(f) == IF f.type = "Authenticate" THEN [f EXCEPT !.parse = "ok"] ELSE f

\* the inbound commands of ClientMessage, and text that is no command
AuthFrames ==
    {[NoReq EXCEPT !.type = "Authenticate", !.parse = "bad"]}
    \cup {[NoReq EXCEPT !.type = "Authenticate", !.parse = p, !.nonce = n,
                        !.addr = a, !.sig = s] :
            p \in {"ok", "lower"}, n \in Nonces, a \in Addrs, s \in {"ok", "bad"}}
    \cup {[NoReq EXCEPT !.type = "SimpleAuth", !.nonce = n, !.addr = a, !.sig = s] :
            n \in Nonces, a \in Addrs, s \in {"ok", "bad"}}
    \cup {[NoReq EXCEPT !.type = "SimpleAuth", !.nonce = n, !.sig = "badaddr"] :
            n \in Nonces}

\* the texts of a send-text command: a short one, one of exactly
\* max_text_len bytes, one of one byte more, the empty one, and one of
\* white space only
Texts == {"ok", "max", "long", "empty", "blank"}

\* text.len(): the length in bytes
text_len(x) ==
    CASE x = "empty" -> 0
      [] x = "blank" -> 3
      [] x = "ok" -> 2
      [] x = "max" -> max_text_len
      [] x = "long" -> max_text_len + 1

\* text.trim().is_empty()
text_trim_is_empty(x) == x \in {"empty", "blank"}

\* a variant of text_error that rejects a text of exactly max_text_len bytes
text_error_strict(x) ==
    IF text_trim_is_empty(x) THEN "Message cannot be empty"
    ELSE IF text_len(x) >= max_text_len THEN "Message too long"
    ELSE ""

\* handle_send_text's input checks: the message of the InvalidRequest they
\* return, or "" if the text passes
text_error(x) ==
    IF text_trim_is_empty(x) THEN "Message cannot be empty"
    ELSE IF text_len(x) > max_text_len THEN "Message too long"
    ELSE ""

RoomFrames ==
    {[NoReq EXCEPT !.type = t, !.room = r] :
        t \in {"JoinRoom", "LeaveRoom"}, r \in Rooms}
    \cup {[NoReq EXCEPT !.type = "SendText", !.room = r, !.text = x] :
            r \in Rooms, x \in Texts}
    \cup {[NoReq EXCEPT !.type = "Ping"], [NoReq EXCEPT !.type = "Malformed"]}

Frames == AuthFrames \cup RoomFrames

\* the login endpoint takes a LoginRequest {message, signature}
LoginRequests == {f \in AuthFrames : f.type = "Authenticate"}

Outcome(kind, detail, nonce) == [kind |-> kind, detail |-> detail, nonce |-> nonce]
NoRes == Outcome("none", "", NoNonce)

\* pc values at which a caller is between two frames or has ended
AtRest == {"start", "loop", "idle", "closed", "returned", "panicked"}

(* ------------------------------ initial state ------------------------- *)

InitAuth ==
    /\ store = {}
    /\ issued = {}
    /\ okCount = [n \in Nonces |-> 0]
    /\ expired = {}

InitRegistry ==
    /\ clients = InitClients
    /\ rooms = InitRooms

InitConn ==
    /\ pc = [k \in Callers |-> IF k \in Conns THEN "start" ELSE "idle"]
    /\ user_address = [c \in Conns |-> None]
    /\ authenticated = [c \in Conns |-> FALSE]
    /\ req = [k \in Callers |-> NoReq]
    /\ res = [k \in Callers |-> NoRes]
    /\ frames = 0
    /\ rooms_to_leave = [c \in Conns |-> {}]
    /\ removeCalls = [c \in Conns |-> 0]
    /\ shared = [c \in Conns |-> FALSE]
    /\ joined = [c \in Conns |-> {}]
    /\ spawned = <<>>
    /\ client_receiver = [c \in Conns |-> None]
    /\ mailbox = [c \in Conns |-> 0]

NoGuard == [writer |-> None, readers |-> {}]
Tasks == {"t1", "t2", "t3"}
NoTask == [op |-> "None", held |-> {}, todo |-> <<>>, left |-> 0]

InitLock ==
    /\ guard = [g \in {"clients", "rooms"} |-> NoGuard]
    /\ task = [t \in Tasks |-> NoTask]

\* main before it spawns a listener; every connection task subscribes to
\* global_sender on entry
NoListener == [pc |-> "unspawned", stream |-> <<>>, results |-> <<>>]

InitChain ==
    /\ logs = <<>>
    /\ listener = [l \in Listeners |-> NoListener]
    /\ global_feed = <<>>
    /\ global_next = [c \in Conns |-> 1]
    /\ global_seen = [c \in Conns |-> <<>>]
    /\ global_lagged = [c \in Conns |-> 0]

Init ==
    /\ InitAuth /\ InitRegistry /\ InitConn /\ InitLock /\ InitChain
    /\ sent = <<>>


(* --------------------------- challenge store -------------------------- *)

\* generate_nonce: a fresh token, stored under nonce:<token> with a TTL
Issue ==
    /\ Cardinality(issued) < Len(Tokens)
    /\ LET n == Tokens[Cardinality(issued) + 1]
       IN /\ issued' = issued \cup {n}
          /\ store' = store \cup {n}
    /\ UNCHANGED <<okCount, expired, clients, rooms, connVars_noshared, sent,
                   lockVars>>

\* a variant of Expire in which the key was stored without a TTL and stays
Expire_keep(n) ==
    /\ n \in store
    /\ expired' = expired \cup {n}
    /\ UNCHANGED <<store, issued, okCount, clients, rooms, connVars_noshared,
                   sent, lockVars>>

\* set_ex(key, "1", 300): 300 seconds after generate_nonce stored it, the
\* key-value service drops a key that is still there
Expire(n) ==
    /\ n \in store
    /\ store' = store \ {n}
    /\ expired' = expired \cup {n}
    /\ UNCHANGED <<issued, okCount, clients, rooms, connVars_noshared, sent,
                   lockVars>>

\* what remains of a verification once the challenge is deleted: the
\* signature check of verify_siwe_message, or parse, recover and compare of
\* handle_simple_authentication
verify_result(f) ==
    IF f.sig = "ok" THEN "Ok"
    ELSE IF f.sig = "badaddr" THEN "InvalidRequest"
    ELSE "InvalidSignature"

\* the error a caller sees: handle_siwe_authentication wraps the error of
\* verify_siwe_message, handle_simple_authentication and login return it
reported(k, f, err) ==
    IF k \in Conns /\ f.type = "Authenticate"
    THEN Outcome("AuthenticationFailed", err, f.nonce)
    ELSE Outcome(err, "", f.nonce)

\* a variant of Fail in which a handler's Err ends the loop
Fail_break(k, out) ==
    /\ res' = [res EXCEPT ![k] = out]
    /\ req' = [req EXCEPT ![k] = NoReq]
    /\ pc' = [pc EXCEPT ![k] = "cleanup"]

\* a handler returned Err on a connection, or the login endpoint is about to
\* respond: the outcome is to be sent to the caller
Fail(k, out) ==
    /\ res' = [res EXCEPT ![k] = out]
    /\ req' = [req EXCEPT ![k] = NoReq]
    /\ pc' = [pc EXCEPT ![k] = "report"]

\* a handler returned Ok(true): the loop goes on, nothing is sent
Succeed(c) ==
    /\ req' = [req EXCEPT ![c] = NoReq]
    /\ pc' = [pc EXCEPT ![c] = "loop"]
    /\ UNCHANGED res

\* the Error message is sent to the client, and a failed send ends the loop;
\* the login endpoint sends its response
Report(k) ==
    /\ pc[k] = "report"
    /\ res' = [res EXCEPT ![k] = NoRes]
    /\ IF k \in Conns
       THEN \E sendok \in BOOLEAN :
               IF sendok
               THEN /\ pc' = [pc EXCEPT ![k] = "loop"]
                    /\ UNCHANGED mailVars
               ELSE /\ pc' = [pc EXCEPT ![k] = "cleanup"]
                    /\ client_receiver' = drop_receiver(client_receiver, k)
                    /\ mailbox' = drop_mailbox(mailbox, k)
       ELSE /\ pc' = [pc EXCEPT ![k] = "idle"]
            /\ UNCHANGED mailVars
    /\ UNCHANGED <<authVars, clients, rooms, user_address, authenticated, req,
                   frames, rooms_to_leave, removeCalls, joined, spawned, sent,
                   lockVars,
                   chainVars>>

\* conn.exists(nonce_key)
nonce_exists(st, n) == n \in st

\* a variant of nonce_del that leaves the key in place
nonce_del_keep(st, n) == st

\* conn.del(nonce_key)
nonce_del(st, n) == st \ {n}

\* the EXISTS round trip of either scheme
NonceExists(k) ==
    /\ pc[k] = "nonce_exists"
    /\ IF nonce_exists(store, req[k].nonce)
       THEN /\ pc' = [pc EXCEPT ![k] = "nonce_del"]
            /\ UNCHANGED <<req, res>>
       ELSE Fail(k, reported(k, req[k], "InvalidNonce"))
    /\ UNCHANGED <<authVars, clients, rooms, user_address, authenticated, frames,
                   rooms_to_leave, removeCalls, joined, spawned, sent, lockVars,
                   mailVars, chainVars>>

\* a variant of NonceDel that checks the signature first and deletes the
\* challenge of a verified attempt only
NonceDel_verified_only(k) ==
    /\ pc[k] = "nonce_del"
    /\ IF verify_result(req[k]) = "Ok"
       THEN /\ store' = nonce_del(store, req[k].nonce)
            /\ okCount' = [okCount EXCEPT ![req[k].nonce] = @ + 1]
            /\ IF k \in Conns
               THEN /\ pc' = [pc EXCEPT ![k] = "auth_add"]
                    /\ req' = [req EXCEPT ![k] =
                                 [NoReq EXCEPT !.type = "Verified",
                                               !.addr = req[k].addr]]
                    /\ UNCHANGED res
               ELSE Fail(k, Outcome("Ok", "", req[k].nonce))
       ELSE /\ Fail(k, reported(k, req[k], verify_result(req[k])))
            /\ UNCHANGED <<store, okCount>>
    /\ UNCHANGED <<issued, expired, clients, rooms, user_address, authenticated,
                   frames, rooms_to_leave, removeCalls, joined, spawned, sent,
                   lockVars, mailVars, chainVars>>

\* the DEL round trip of either scheme, and the signature check after it
NonceDel(k) ==
    /\ pc[k] = "nonce_del"
    /\ store' = nonce_del(store, req[k].nonce)
    /\ IF verify_result(req[k]) = "Ok"
       THEN /\ okCount' = [okCount EXCEPT ![req[k].nonce] = @ + 1]
            /\ IF k \in Conns
               THEN \* the handler goes on with the verified address alone
                    /\ pc' = [pc EXCEPT ![k] = "auth_add"]
                    /\ req' = [req EXCEPT ![k] =
                                 [NoReq EXCEPT !.type = "Verified",
                                               !.addr = req[k].addr]]
                    /\ UNCHANGED res
               ELSE \* login: generate_jwt, cache_user_auth, the response
                    Fail(k, Outcome("Ok", "", req[k].nonce))
       ELSE /\ Fail(k, reported(k, req[k], verify_result(req[k])))
            /\ UNCHANGED okCount
    /\ UNCHANGED <<issued, expired, clients, rooms, user_address, authenticated,
                   frames, rooms_to_leave, removeCalls, joined, spawned, sent,
                   lockVars, mailVars, chainVars>>

\* POST /api/auth/login: the statement is parsed, then verified
RecvLogin(h, f) ==
    /\ pc[h] = "idle"
    /\ frames < MaxAttempts
    /\ frames' = frames + 1
    /\ IF ~siwe_parses(f.parse)
       THEN Fail(h, Outcome("InvalidSignature", "", NoNonce))
       ELSE /\ pc' = [pc EXCEPT ![h] = "nonce_exists"]
            /\ req' = [req EXCEPT ![h] = parsed(f)]
            /\ UNCHANGED res
    /\ UNCHANGED <<authVars, clients, rooms, user_address, authenticated,
                   rooms_to_leave, removeCalls, joined, spawned, sent, lockVars,
                   mailVars, chainVars>>


(* ---------------------------- the connection -------------------------- *)

\* handle_connection up to the loop: a failed welcome returns before it
Welcome(c) ==
    /\ pc[c] = "start"
    /\ \E sendok \in BOOLEAN :
          pc' = [pc EXCEPT ![c] = IF sendok THEN "loop" ELSE "returned"]
    /\ UNCHANGED <<authVars, clients, rooms, user_address, authenticated, req, res,
                   frames, rooms_to_leave, removeCalls, joined, spawned, sent,
                   lockVars,
                   mailVars, chainVars>>

\* the pc at which the handler of a room command starts
handler_pc(f) ==
    CASE f.type = "SendText" -> "send_get"
      [] f.type = "JoinRoom" -> "join"
      [] f.type = "LeaveRoom" -> "leave_get"
      [] OTHER -> "ping"

\* a variant of Dispatch that lets an Unauthenticated connection run room
\* commands
Dispatch_open(c, f) ==
    IF f.type = "Malformed"
    THEN Fail(c, Outcome("SerializationError", "", NoNonce))
    ELSE IF f.type \in {"Authenticate", "SimpleAuth"}
    THEN IF authenticated[c]
         THEN Fail(c, Outcome("AuthenticationFailed", "Already authenticated", NoNonce))
         ELSE IF f.type = "Authenticate" /\ ~siwe_parses(f.parse)
         THEN Fail(c, Outcome("AuthenticationFailed", "InvalidSignature", NoNonce))
         ELSE /\ pc' = [pc EXCEPT ![c] = "nonce_exists"]
              /\ req' = [req EXCEPT ![c] = parsed(f)]
              /\ UNCHANGED res
    ELSE IF f.type = "SendText" /\ text_error(f.text) # ""
    THEN Fail(c, Outcome("InvalidRequest", text_error(f.text), NoNonce))
    ELSE /\ pc' = [pc EXCEPT ![c] = handler_pc(f)]
         /\ req' = [req EXCEPT ![c] = f]
         /\ UNCHANGED res

\* a variant of Dispatch that verifies an authenticate command of an
\* Authenticated connection again
Dispatch_reauth(c, f) ==
    IF f.type = "Malformed"
    THEN Fail(c, Outcome("SerializationError", "", NoNonce))
    ELSE IF f.type \in {"Authenticate", "SimpleAuth"}
    THEN IF f.type = "Authenticate" /\ ~siwe_parses(f.parse)
         THEN Fail(c, Outcome("AuthenticationFailed", "InvalidSignature", NoNonce))
         ELSE /\ pc' = [pc EXCEPT ![c] = "nonce_exists"]
              /\ req' = [req EXCEPT ![c] = parsed(f)]
              /\ UNCHANGED res
    ELSE IF ~authenticated[c]
    THEN Fail(c, Outcome("AuthenticationFailed", "Not authenticated", NoNonce))
    ELSE IF f.type = "SendText" /\ text_error(f.text) # ""
    THEN Fail(c, Outcome("InvalidRequest", text_error(f.text), NoNonce))
    ELSE /\ pc' = [pc EXCEPT ![c] = handler_pc(f)]
         /\ req' = [req EXCEPT ![c] = f]
         /\ UNCHANGED res

\* handle_client_message up to the first await of the command's handler
Dispatch(c, f) ==
    IF f.type = "Malformed"
    THEN Fail(c, Outcome("SerializationError", "", NoNonce))
    ELSE IF f.type \in {"Authenticate", "SimpleAuth"}
    THEN IF authenticated[c]
         THEN Fail(c, Outcome("AuthenticationFailed", "Already authenticated", NoNonce))
         ELSE IF f.type = "Authenticate" /\ ~siwe_parses(f.parse)
         THEN Fail(c, Outcome("AuthenticationFailed", "InvalidSignature", NoNonce))
         ELSE /\ pc' = [pc EXCEPT ![c] = "nonce_exists"]
              /\ req' = [req EXCEPT ![c] = parsed(f)]
              /\ UNCHANGED res
    ELSE IF ~authenticated[c]
    THEN Fail(c, Outcome("AuthenticationFailed", "Not authenticated", NoNonce))
    ELSE IF f.type = "SendText" /\ text_error(f.text) # ""
    THEN Fail(c, Outcome("InvalidRequest", text_error(f.text), NoNonce))
    ELSE /\ pc' = [pc EXCEPT ![c] = handler_pc(f)]
         /\ req' = [req EXCEPT ![c] = f]
         /\ UNCHANGED res

\* receiver.next() yields Some(Ok(Message::Text(text)))
RecvFrame(c, f, budget) ==
    /\ pc[c] = "loop"
    /\ frames < budget
    /\ frames' = frames + 1
    /\ Dispatch(c, f)
    /\ UNCHANGED <<authVars, clients, rooms, user_address, authenticated,
                   rooms_to_leave, removeCalls, joined, spawned, sent, lockVars,
                   mailVars, chainVars>>

\* state.add_client(address, ens_name)
AuthAdd(c) ==
    /\ pc[c] = "auth_add"
    /\ clients' = add_client(clients, req[c].addr, c)
    /\ pc' = [pc EXCEPT ![c] = "auth_sub"]
    /\ UNCHANGED <<authVars, rooms, user_address, authenticated, req, res, frames,
                   rooms_to_leave, removeCalls, joined, spawned, sent, lockVars,
                   mailVars, chainVars>>

\* get_client and subscribe, then user_address and authenticated are set
AuthSub(c) ==
    /\ pc[c] = "auth_sub"
    /\ user_address' = [user_address EXCEPT ![c] = req[c].addr]
    /\ authenticated' = [authenticated EXCEPT ![c] = TRUE]
    /\ pc' = [pc EXCEPT ![c] = "auth_send"]
    /\ client_receiver' = [client_receiver EXCEPT ![c] =
                              IF req[c].addr \in DOMAIN clients
                              THEN clients[req[c].addr].id ELSE @]
    /\ UNCHANGED <<authVars, clients, rooms, req, res, frames, rooms_to_leave,
                   removeCalls, joined, spawned, sent, lockVars,
                   mailbox, chainVars>>

\* get_client and the AuthSuccess message
AuthSend(c) ==
    /\ pc[c] = "auth_send"
    /\ pc' = [pc EXCEPT ![c] = "auth_join"]
    /\ mailbox' = send_to_client(mailbox, client_receiver, clients, user_address[c])
    /\ UNCHANGED <<authVars, clients, rooms, user_address, authenticated, req, res,
                   frames, rooms_to_leave, removeCalls, joined, spawned, sent,
                   lockVars,
                   client_receiver, chainVars>>

\* state.join_room(address, "general")
AuthJoin(c) ==
    /\ pc[c] = "auth_join"
    /\ rooms' = join_room_rooms(rooms, user_address[c], "general")
    /\ clients' = join_room_clients(clients, user_address[c], "general")
    /\ joined' = [joined EXCEPT ![c] =
                    IF join_room_result(clients, user_address[c])
                    THEN @ \cup {"general"} ELSE @]
    /\ pc' = [pc EXCEPT ![c] = "auth_bcast"]
    /\ UNCHANGED <<authVars, user_address, authenticated, req, res, frames,
                   rooms_to_leave, removeCalls, spawned, sent, lockVars,
                   mailVars, chainVars>>

\* state.broadcast_to_room("general", user_joined), then Ok(true)
AuthBcast(c) ==
    /\ pc[c] = "auth_bcast"
    /\ rooms' = broadcast_to_room_rooms(rooms, "general",
                                        user_joined(user_address[c], "general"))
    /\ Succeed(c)
    /\ mailbox' = broadcast_to_room_mailbox(mailbox, client_receiver, clients,
                                             rooms, "general")
    /\ UNCHANGED <<authVars, clients, user_address, authenticated, frames,
                   rooms_to_leave, removeCalls, joined, spawned, sent, lockVars,
                   client_receiver, chainVars>>

\* handle_join_room: state.join_room(user_address, room)
Join(c) ==
    /\ pc[c] = "join"
    /\ rooms' = join_room_rooms(rooms, user_address[c], req[c].room)
    /\ clients' = join_room_clients(clients, user_address[c], req[c].room)
    /\ IF join_room_result(clients, user_address[c])
       THEN /\ joined' = [joined EXCEPT ![c] = @ \cup {req[c].room}]
            /\ pc' = [pc EXCEPT ![c] = "join_get"]
            /\ UNCHANGED <<req, res>>
       ELSE /\ Succeed(c)
            /\ UNCHANGED joined
    /\ UNCHANGED <<authVars, user_address, authenticated, frames, rooms_to_leave,
                   removeCalls, spawned, sent, lockVars,
                   mailVars, chainVars>>

\* handle_join_room: state.get_client(user_address).await.unwrap()
JoinGet(c) ==
    /\ pc[c] = "join_get"
    /\ pc' = [pc EXCEPT ![c] = IF user_address[c] \in DOMAIN clients
                               THEN "join_bcast" ELSE "panicked"]
    /\ IF user_address[c] \in DOMAIN clients
       THEN UNCHANGED mailVars
       ELSE /\ client_receiver' = drop_receiver(client_receiver, c)
            /\ mailbox' = drop_mailbox(mailbox, c)
    /\ UNCHANGED <<authVars, clients, rooms, user_address, authenticated, req, res,
                   frames, rooms_to_leave, removeCalls, joined, spawned, sent,
                   lockVars,
                   chainVars>>

\* handle_join_room: broadcast_to_room(room, user_joined(display_name, room))
JoinBcast(c) ==
    /\ pc[c] = "join_bcast"
    /\ rooms' = broadcast_to_room_rooms(rooms, req[c].room,
                                        user_joined(user_address[c], req[c].room))
    /\ pc' = [pc EXCEPT ![c] = "join_users"]
    /\ mailbox' = broadcast_to_room_mailbox(mailbox, client_receiver, clients,
                                             rooms, req[c].room)
    /\ UNCHANGED <<authVars, clients, user_address, authenticated, req, res, frames,
                   rooms_to_leave, removeCalls, joined, spawned, sent, lockVars,
                   client_receiver, chainVars>>

\* handle_join_room: get_room_users(room)
JoinUsers(c) ==
    /\ pc[c] = "join_users"
    /\ pc' = [pc EXCEPT ![c] = "join_send"]
    /\ UNCHANGED <<authVars, clients, rooms, user_address, authenticated, req, res,
                   frames, rooms_to_leave, removeCalls, joined, spawned, sent,
                   lockVars,
                   mailVars, chainVars>>

\* handle_join_room: get_client and the RoomUsers message, then Ok(())
JoinSend(c) ==
    /\ pc[c] = "join_send"
    /\ Succeed(c)
    /\ mailbox' = send_to_client(mailbox, client_receiver, clients, user_address[c])
    /\ UNCHANGED <<authVars, clients, rooms, user_address, authenticated, frames,
                   rooms_to_leave, removeCalls, joined, spawned, sent, lockVars,
                   client_receiver, chainVars>>

\* handle_leave_room: get_client, or "Client not found"
LeaveGet(c) ==
    /\ pc[c] = "leave_get"
    /\ IF user_address[c] \in DOMAIN clients
       THEN /\ pc' = [pc EXCEPT ![c] = "leave"]
            /\ UNCHANGED <<req, res>>
       ELSE Fail(c, Outcome("AuthenticationFailed", "Client not found", NoNonce))
    /\ UNCHANGED <<authVars, clients, rooms, user_address, authenticated, frames,
                   rooms_to_leave, removeCalls, joined, spawned, sent, lockVars,
                   mailVars, chainVars>>

\* handle_leave_room: state.leave_room(user_address, room)
Leave(c) ==
    /\ pc[c] = "leave"
    /\ rooms' = leave_room_rooms(rooms, user_address[c], req[c].room)
    /\ clients' = leave_room_clients(clients, user_address[c], req[c].room)
    /\ pc' = [pc EXCEPT ![c] = "leave_bcast"]
    /\ UNCHANGED <<authVars, user_address, authenticated, req, res, frames,
                   rooms_to_leave, removeCalls, joined, spawned, sent, lockVars,
                   mailVars, chainVars>>

\* handle_leave_room: broadcast_to_room(room, user_left(display_name, room))
LeaveBcast(c) ==
    /\ pc[c] = "leave_bcast"
    /\ rooms' = broadcast_to_room_rooms(rooms, req[c].room,
                                        user_left(user_address[c], req[c].room))
    /\ Succeed(c)
    /\ mailbox' = broadcast_to_room_mailbox(mailbox, client_receiver, clients,
                                             rooms, req[c].room)
    /\ UNCHANGED <<authVars, clients, user_address, authenticated, frames,
                   rooms_to_leave, removeCalls, joined, spawned, sent, lockVars,
                   client_receiver, chainVars>>

\* the display name of a session without a resolved name: first 6 and last 4
\* characters of the address
short_address(a) == <<"short", a>>

\* a variant of SendGet without the membership check
SendGet_any(c) ==
    /\ pc[c] = "send_get"
    /\ IF user_address[c] \notin DOMAIN clients
       THEN Fail(c, Outcome("AuthenticationFailed", "Client not found", NoNonce))
            /\ UNCHANGED spawned
       ELSE /\ spawned' = Append(spawned,
                  [room |-> req[c].room,
                   message |-> new_text(short_address(user_address[c]), req[c].text,
                                        req[c].room)])
            /\ Succeed(c)
    /\ UNCHANGED <<authVars, clients, rooms, user_address, authenticated, frames,
                   rooms_to_leave, removeCalls, joined, sent, lockVars,
                   mailVars, chainVars>>

\* a variant of SendGet that awaits broadcast_to_room in the handler instead
\* of spawning it
SendGet_inline(c) ==
    /\ pc[c] = "send_get"
    /\ IF user_address[c] \notin DOMAIN clients
       THEN Fail(c, Outcome("AuthenticationFailed", "Client not found", NoNonce))
            /\ UNCHANGED <<rooms, mailVars>>
       ELSE IF req[c].room \notin clients[user_address[c]].current_rooms
       THEN Fail(c, Outcome("AuthorizationFailed", "User not in room", NoNonce))
            /\ UNCHANGED <<rooms, mailVars>>
       ELSE /\ rooms' = broadcast_to_room_rooms(rooms, req[c].room,
                  new_text(short_address(user_address[c]), req[c].text, req[c].room))
            /\ mailbox' = broadcast_to_room_mailbox(mailbox, client_receiver,
                                                     clients, rooms, req[c].room)
            /\ UNCHANGED client_receiver
            /\ Succeed(c)
    /\ UNCHANGED <<authVars, clients, user_address, authenticated, frames,
                   rooms_to_leave, removeCalls, joined, spawned, sent, lockVars,
                   chainVars>>

\* handle_send_text after the input checks: get_client, the membership check,
\* and the spawn of the broadcast
SendGet(c) ==
    /\ pc[c] = "send_get"
    /\ IF user_address[c] \notin DOMAIN clients
       THEN Fail(c, Outcome("AuthenticationFailed", "Client not found", NoNonce))
            /\ UNCHANGED spawned
       ELSE IF req[c].room \notin clients[user_address[c]].current_rooms
       THEN Fail(c, Outcome("AuthorizationFailed", "User not in room", NoNonce))
            /\ UNCHANGED spawned
       ELSE /\ spawned' = Append(spawned,
                  [room |-> req[c].room,
                   message |-> new_text(short_address(user_address[c]), req[c].text,
                                        req[c].room)])
            /\ Succeed(c)
    /\ UNCHANGED <<authVars, clients, rooms, user_address, authenticated, frames,
                   rooms_to_leave, removeCalls, joined, sent, lockVars,
                   mailVars, chainVars>>

\* a spawned task runs state_clone.broadcast_to_room(room_name, message)
RunSpawned(i) ==
    /\ i \in 1..Len(spawned)
    /\ rooms' = broadcast_to_room_rooms(rooms, spawned[i].room, spawned[i].message)
    /\ spawned' = SubSeq(spawned, 1, i - 1) \o SubSeq(spawned, i + 1, Len(spawned))
    /\ mailbox' = broadcast_to_room_mailbox(mailbox, client_receiver, clients,
                                             rooms, spawned[i].room)
    /\ UNCHANGED <<authVars, clients, pc, user_address, authenticated, req, res,
                   frames, rooms_to_leave, removeCalls, joined, sent, lockVars,
                   client_receiver, chainVars>>

\* ClientMessage::Ping: get_client and the Pong message
Ping(c) ==
    /\ pc[c] = "ping"
    /\ Succeed(c)
    /\ mailbox' = send_to_client(mailbox, client_receiver, clients, user_address[c])
    /\ UNCHANGED <<authVars, clients, rooms, user_address, authenticated, frames,
                   rooms_to_leave, removeCalls, joined, spawned, sent, lockVars,
                   client_receiver, chainVars>>

\* the third arm of the select: client_receiver.recv() yields a message and
\* it is sent to the client; a failed send ends the loop. Without a
\* client_receiver the arm is pending forever
Forward(c) ==
    /\ pc[c] = "loop"
    /\ client_receiver[c] # None
    /\ mailbox[c] > 0
    /\ \E sendok \in BOOLEAN :
          IF sendok
          THEN /\ mailbox' = [mailbox EXCEPT ![c] = @ - 1]
               /\ UNCHANGED <<pc, client_receiver>>
          ELSE /\ pc' = [pc EXCEPT ![c] = "cleanup"]
               /\ client_receiver' = drop_receiver(client_receiver, c)
               /\ mailbox' = drop_mailbox(mailbox, c)
    /\ UNCHANGED <<authVars, clients, rooms, user_address, authenticated, req, res,
                   frames, rooms_to_leave, removeCalls, joined, spawned, sent,
                   lockVars, chainVars>>

\* the loop breaks: a close frame, a transport error, the end of the stream,
\* or a failed send of a forwarded message
Disconnect(c) ==
    /\ pc[c] = "loop"
    /\ pc' = [pc EXCEPT ![c] = "cleanup"]
    /\ client_receiver' = drop_receiver(client_receiver, c)
    /\ mailbox' = drop_mailbox(mailbox, c)
    /\ UNCHANGED <<authVars, clients, rooms, user_address, authenticated, req, res,
                   frames, rooms_to_leave, removeCalls, joined, spawned, sent,
                   lockVars,
                   chainVars>>

\* after the loop: remove_client if user_address is Some; its first part
\* takes the client out of the map and collects rooms_to_leave
CleanupRemove(c) ==
    /\ pc[c] = "cleanup"
    /\ IF user_address[c] = None
       THEN /\ pc' = [pc EXCEPT ![c] = "closed"]
            /\ UNCHANGED <<clients, rooms_to_leave, removeCalls>>
       ELSE /\ removeCalls' = [removeCalls EXCEPT ![c] = @ + 1]
            /\ IF user_address[c] \in DOMAIN clients
               THEN /\ clients' = remove_entry(clients, user_address[c])
                    /\ rooms_to_leave' = [rooms_to_leave EXCEPT ![c] =
                            clients[user_address[c]].current_rooms]
                    /\ pc' = [pc EXCEPT ![c] =
                            IF clients[user_address[c]].current_rooms = {}
                            THEN "closed" ELSE "removing"]
               ELSE /\ pc' = [pc EXCEPT ![c] = "closed"]
                    /\ UNCHANGED <<clients, rooms_to_leave>>
    /\ UNCHANGED <<authVars, rooms, user_address, authenticated, req, res, frames,
                   joined, spawned, sent, lockVars,
                   mailVars, chainVars>>

\* remove_client's loop: leave_room for the next of rooms_to_leave
CleanupLeave(c, r) ==
    /\ pc[c] = "removing"
    /\ r \in rooms_to_leave[c]
    /\ rooms' = leave_room_rooms(rooms, user_address[c], r)
    /\ clients' = leave_room_clients(clients, user_address[c], r)
    /\ rooms_to_leave' = [rooms_to_leave EXCEPT ![c] = @ \ {r}]
    /\ pc' = [pc EXCEPT ![c] = IF rooms_to_leave[c] = {r} THEN "closed" ELSE "removing"]
    /\ UNCHANGED <<authVars, user_address, authenticated, req, res, frames,
                   removeCalls, joined, spawned, sent, lockVars,
                   mailVars, chainVars>>

\* the address a connection acts for, from add_client to the end of its cleanup
Holder(c) ==
    IF pc[c] \in {"closed", "panicked", "returned"} THEN None
    ELSE IF user_address[c] # None THEN user_address[c]
    ELSE IF pc[c] = "auth_sub" THEN req[c].addr
    ELSE None

\* the steps of a connection task once a frame is dispatched, and of the
\* tasks it spawns
HandlerStep(c) ==
    \/ AuthAdd(c) \/ AuthSub(c) \/ AuthSend(c) \/ AuthJoin(c) \/ AuthBcast(c)
    \/ Join(c) \/ JoinGet(c) \/ JoinBcast(c) \/ JoinUsers(c) \/ JoinSend(c)
    \/ LeaveGet(c) \/ Leave(c) \/ LeaveBcast(c)
    \/ SendGet(c) \/ Ping(c) \/ Forward(c)
    \/ Disconnect(c) \/ CleanupRemove(c)
    \/ \E r \in Rooms : CleanupLeave(c, r)

\* shared follows the other variables
TrackShared ==
    shared' = [c \in Conns |->
                 \/ shared[c]
                 \/ \E d \in Conns \ {c} :
                       Holder(c)' # None /\ Holder(d)' = Holder(c)']

\* the frames of the connection specification: every command, with
\* authenticate commands that carry a well-formed, rightly signed statement
ConnFrames == RoomFrames \cup {f \in AuthFrames : f.parse # "bad" /\ f.sig = "ok"}

ConnStep ==
    \/ Issue
    \/ \E c \in Conns :
          \/ Welcome(c)
          \/ \E f \in ConnFrames : RecvFrame(c, f, MaxFrames)
          \/ NonceExists(c) \/ NonceDel(c) \/ Report(c)
          \/ HandlerStep(c)
    \/ \E i \in 1..MaxFrames : RunSpawned(i)

Next == ConnStep /\ TrackShared

\* connections and the registry: every command of an open connection, its
\* disconnect and its cleanup
Spec == Init /\ [][Next]_vars

AuthStep ==
    \/ Issue
    \/ \E n \in Nonces : Expire(n)
    \/ \E k \in Callers : NonceExists(k) \/ NonceDel(k) \/ Report(k)
    \/ \E h \in Logins, f \in LoginRequests : RecvLogin(h, f)
    \/ \E c \in Conns :
          \/ Welcome(c)
          \/ \E f \in AuthFrames : RecvFrame(c, f, MaxAttempts)
          \/ AuthAdd(c) \/ AuthSub(c) \/ AuthSend(c) \/ AuthJoin(c) \/ AuthBcast(c)
          \/ Forward(c)

NextAuth == AuthStep /\ TrackShared

\* authentication: every authenticate command and login request, issued,
\* unknown and expired challenges, on connections that stay open
SpecAuth == Init /\ [][NextAuth]_vars


(* ------------------------ the history of one room --------------------- *)

\* the n-th text published to the default room
nth_text(n) == new_text(short_address("0xA"), n, "general")

\* broadcast_to_room("general", message) on the room map of AppState::new
HistPublish ==
    /\ Len(sent) < MaxPublish
    /\ rooms' = broadcast_to_room_rooms(rooms, "general", nth_text(Len(sent) + 1))
    /\ sent' = Append(sent, nth_text(Len(sent) + 1))
    /\ UNCHANGED <<authVars, clients, connVars, lockVars>>

NextHistory == HistPublish

\* publishes to one room, as many as overflow its history
SpecHistory == Init /\ [][NextHistory]_vars

(* ------------------------------ the guards ---------------------------- *)

\* the guards a registry method takes, in the order it takes them; all are
\* dropped when the method returns
W(g) == [guard |-> g, mode |-> "write"]
R(g) == [guard |-> g, mode |-> "read"]

guard_order(op) ==
    CASE op = "join_room" -> <<W("rooms"), W("clients")>>
      [] op = "leave_room" -> <<W("rooms"), W("clients")>>
      [] op = "broadcast_to_room" -> <<R("clients"), W("rooms")>>
      [] op = "get_online_users" -> <<R("rooms"), R("clients")>>
      [] op = "remove_client" -> <<W("clients")>>

RegistryOps == {"join_room", "leave_room", "broadcast_to_room",
                "get_online_users", "remove_client"}

\* RwLock: a writer excludes everyone, readers exclude a writer
CanAcquire(a) ==
    /\ guard[a.guard].writer = None
    /\ a.mode = "write" => guard[a.guard].readers = {}

\* a task calls a registry method; remove_client finds some rooms to leave
LockCall(t, op, n) ==
    /\ task[t].op = "None"
    /\ n > 0 => op = "remove_client"
    /\ task' = [task EXCEPT ![t] =
                  [op |-> op, held |-> {}, todo |-> guard_order(op), left |-> n]]
    /\ UNCHANGED <<guard, authVars, clients, rooms, connVars, sent>>

\* .read().await or .write().await returns
LockAcquire(t) ==
    /\ task[t].todo # <<>>
    /\ LET a == Head(task[t].todo)
       IN /\ CanAcquire(a)
          /\ guard' = [guard EXCEPT ![a.guard] =
                         IF a.mode = "write" THEN [@ EXCEPT !.writer = t]
                         ELSE [@ EXCEPT !.readers = @ \cup {t}]]
          /\ task' = [task EXCEPT ![t].todo = Tail(@),
                                  ![t].held = @ \cup {a.guard}]
    /\ UNCHANGED <<authVars, clients, rooms, connVars, sent>>

\* the method body runs and its guards are dropped; remove_client, its guard
\* dropped, goes on to call leave_room for each of rooms_to_leave
LockReturn(t) ==
    /\ task[t].op # "None"
    /\ task[t].todo = <<>>
    /\ guard' = [g \in DOMAIN guard |->
                   [writer |-> IF guard[g].writer = t THEN None ELSE guard[g].writer,
                    readers |-> guard[g].readers \ {t}]]
    /\ task' = [task EXCEPT ![t] =
                  IF task[t].left > 0
                  THEN [op |-> "leave_room", held |-> {},
                        todo |-> guard_order("leave_room"), left |-> task[t].left - 1]
                  ELSE NoTask]
    /\ UNCHANGED <<authVars, clients, rooms, connVars, sent>>

NextLock ==
    \E t \in Tasks :
       \/ \E op \in RegistryOps, n \in 0..Cardinality(Rooms) : LockCall(t, op, n)
       \/ LockAcquire(t)
       \/ LockReturn(t)

\* concurrent tasks calling the registry methods that take two guards
SpecLock == Init /\ [][NextLock]_vars

Waiting(t) == task[t].todo # <<>> /\ ~CanAcquire(Head(task[t].todo))
Holding(t) == task[t].held # {}


(* --------------------------- the chain bridge ------------------------- *)

\* the range of I256 and of u128 at the scaled widths
I256_MIN == -(2^(I256Bits - 1))
I256_MAX == 2^(I256Bits - 1) - 1
U128_MAX == 2^U128Bits - 1

\* the signed delta fields a decoded Swap log can carry: the ends of the
\* range, and the values around zero, the threshold and the range of u128
Amounts == {I256_MIN, -(U128_MAX + 1), -threshold, -(threshold - 1), 0,
            threshold - 1, threshold, U128_MAX + 1}

Panicked == [ok |-> FALSE, v |-> 0]
Value(n) == [ok |-> TRUE, v |-> n]

\* I256::abs: the absolute value of MIN overflows, which panics in a debug
\* build and wraps to MIN in a release build
I256_abs(x, build) ==
    IF x = I256_MIN
    THEN IF build = "debug" THEN Panicked ELSE Value(I256_MIN)
    ELSE Value(IF x < 0 THEN -x ELSE x)

\* I256::as_u128: the two's-complement word converted with overflow checking,
\* a panic outside the range of u128
I256_as_u128(x) ==
    LET raw == x % 2^I256Bits
    IN IF raw <= U128_MAX THEN Value(raw) ELSE Panicked

\* handle_swap_event: amount0_abs and amount1_abs
amount_abs(x, build) ==
    IF x < 0
    THEN LET a == I256_abs(x, build)
         IN IF a.ok THEN I256_as_u128(a.v) ELSE Panicked
    ELSE I256_as_u128(x)

\* handle_swap_event up to its threshold check
swap_outcome(lg, build) ==
    LET m0 == amount_abs(lg.amount_0, build)
        m1 == amount_abs(lg.amount_1, build)
    IN IF ~m0.ok \/ ~m1.ok THEN "panicked"
       ELSE IF m0.v < threshold /\ m1.v < threshold THEN "discarded"
       ELSE "published"

ChainEvent(i) == [type |-> "ChainEvent", log |-> i]

\* broadcast_global: let _ = global_sender.send(message). The channel keeps
\* the newest global_capacity messages and the call returns at once, whether
\* or not a receiver has read the message it overwrites
broadcast_global(feed, m) == Append(feed, m)

\* the oldest message the channel still holds
oldest_retained(feed) ==
    IF Len(feed) > global_capacity THEN Len(feed) - global_capacity + 1 ELSE 1

\* a variant of lagged_next in which a receiver that lagged skips all that
\* was sent
lagged_next_newest(feed) == Len(feed) + 1

\* RecvError::Lagged: the receiver's cursor moves to the oldest message the
\* channel still holds
lagged_next(feed) == oldest_retained(feed)

\* main spawns a task that runs BlockchainListener::start, which subscribes
\* to the logs; then, ETHEREUM_WS_URL and ETHEREUM_HTTP_URL being set (as
\* Config::from_env requires), it spawns a second one
SpawnListener(l) ==
    /\ listener[l].pc = "unspawned"
    /\ l = "l2" => listener["l1"].pc # "unspawned"
    /\ listener' = [listener EXCEPT ![l].pc = "running"]
    /\ UNCHANGED <<authVars, clients, rooms, pc, user_address, authenticated, req,
                   res, frames, rooms_to_leave, removeCalls, joined, spawned,
                   sent, lockVars, mailVars, logs, global_feed, global_next,
                   global_seen, global_lagged>>

\* a log that SwapFilter::decode_log decodes, with its two signed deltas
SwapLog(a0, a1) == [decodes |-> TRUE, amount_0 |-> a0, amount_1 |-> a1]

\* a log of a watched pool that SwapFilter::decode_log rejects
Undecodable == [decodes |-> FALSE, amount_0 |-> 0, amount_1 |-> 0]

\* the logs of the bridge specification
StreamLogs == {Undecodable} \cup {SwapLog(a0, 0) : a0 \in Amounts}

\* the subscription of every running listener yields the log
deliver_log(lg) ==
    /\ logs' = Append(logs, lg)
    /\ listener' = [l \in Listeners |->
                      IF listener[l].pc = "running"
                      THEN [listener[l] EXCEPT !.stream = Append(@, Len(logs) + 1)]
                      ELSE listener[l]]
    /\ UNCHANGED <<authVars, clients, rooms, pc, user_address, authenticated, req,
                   res, frames, rooms_to_leave, removeCalls, joined, spawned,
                   sent, lockVars, mailVars, global_feed, global_next,
                   global_seen, global_lagged>>

\* a watched pool emits a Swap log: every open subscription receives it
EmitLog(a0, a1) ==
    /\ Len(logs) < MaxLogs
    /\ deliver_log(SwapLog(a0, a1))

\* a watched pool emits a log, one that decodes as a Swap event or not
StreamLog(lg) ==
    /\ Len(logs) < MaxStream
    /\ deliver_log(lg)

\* a variant of log_outcome in which a log that does not decode ends the
\* listener
log_outcome_fatal(lg, build) ==
    IF lg.decodes THEN swap_outcome(lg, build) ELSE "panicked"

\* handle_log: a log that does not decode is skipped with Ok(()), one that
\* does goes to handle_swap_event
log_outcome(lg, build) ==
    IF lg.decodes THEN swap_outcome(lg, build) ELSE "skipped"

\* stream.next() yields a log: handle_log, handle_swap_event and, past the
\* threshold, broadcast_global; a panic ends the listener's task
HandleLog(l) ==
    /\ listener[l].pc = "running"
    /\ listener[l].stream # <<>>
    /\ \E build \in {"debug", "release"} :
          LET i == Head(listener[l].stream)
              out == log_outcome(logs[i], build)
          IN /\ listener' = [listener EXCEPT ![l] =
                   [pc |-> IF out = "panicked" THEN "panicked" ELSE "running",
                    stream |-> IF out = "panicked" THEN <<>>
                               ELSE Tail(listener[l].stream),
                    results |-> Append(listener[l].results,
                                       [log |-> i, result |-> out])]]
             /\ global_feed' = IF out = "published"
                               THEN broadcast_global(global_feed, ChainEvent(i))
                               ELSE global_feed
    /\ UNCHANGED <<authVars, clients, rooms, pc, user_address, authenticated, req,
                   res, frames, rooms_to_leave, removeCalls, joined, spawned,
                   sent, lockVars, mailVars, logs, global_next, global_seen,
                   global_lagged>>

\* a variant of GlobalRecv in which only an Authenticated connection polls
\* its global_receiver
GlobalRecv_authenticated(c) ==
    /\ authenticated[c]
    /\ pc[c] = "loop"
    /\ global_next[c] <= Len(global_feed)
    /\ global_next' = [global_next EXCEPT ![c] = @ + 1]
    /\ global_seen' = [global_seen EXCEPT ![c] =
                         Append(@, global_feed[global_next[c]].log)]
    /\ UNCHANGED <<authVars, clients, rooms, pc, user_address, authenticated, req,
                   res, frames, rooms_to_leave, removeCalls, joined, spawned,
                   sent, lockVars, mailVars, logs, listener, global_feed,
                   global_lagged>>

\* the second arm of the select: global_receiver.recv() yields a message and
\* it is sent to the client, a failed send ending the loop; or it yields
\* Lagged, which is logged, and the loop goes on
GlobalRecv(c) ==
    /\ pc[c] = "loop"
    /\ global_next[c] <= Len(global_feed)
    /\ IF global_next[c] < oldest_retained(global_feed)
       THEN /\ global_next' = [global_next EXCEPT ![c] = lagged_next(global_feed)]
            /\ global_lagged' = [global_lagged EXCEPT ![c] =
                                   @ + (oldest_retained(global_feed) - global_next[c])]
            /\ UNCHANGED <<pc, mailVars, global_seen>>
       ELSE /\ global_next' = [global_next EXCEPT ![c] = @ + 1]
            /\ UNCHANGED global_lagged
            /\ \E sendok \in BOOLEAN :
                  IF sendok
                  THEN /\ global_seen' = [global_seen EXCEPT ![c] =
                                       Append(@, global_feed[global_next[c]].log)]
                       /\ UNCHANGED <<pc, mailVars>>
                  ELSE /\ pc' = [pc EXCEPT ![c] = "cleanup"]
                       /\ client_receiver' = drop_receiver(client_receiver, c)
                       /\ mailbox' = drop_mailbox(mailbox, c)
                       /\ UNCHANGED global_seen
    /\ UNCHANGED <<authVars, clients, rooms, user_address, authenticated, req,
                   res, frames, rooms_to_leave, removeCalls, joined, spawned,
                   sent, lockVars, logs, listener, global_feed>>

ChainStep ==
    \/ \E l \in Listeners : SpawnListener(l) \/ HandleLog(l)
    \/ \E a0 \in Amounts, a1 \in Amounts : EmitLog(a0, a1)
    \/ \E c \in Conns : Welcome(c) \/ GlobalRecv(c) \/ Disconnect(c) \/ CleanupRemove(c)

NextChain == ChainStep /\ TrackShared

\* the listeners main starts, the logs of the watched pools, and the
\* connections that forward the global feed
SpecChain == Init /\ [][NextChain]_vars


(* ------------------------------ the bridge ---------------------------- *)

BridgeStep ==
    \/ \E l \in Listeners : SpawnListener(l) \/ HandleLog(l)
    \/ \E lg \in StreamLogs : StreamLog(lg)

NextBridge == BridgeStep /\ TrackShared

\* the listeners main starts and a stream of logs, some of which do not
\* decode as Swap events
SpecBridge == Init /\ [][NextBridge]_vars


(* --------------------------- the global channel ----------------------- *)

\* a caller of broadcast_global publishes the next message
BroadcastGlobal ==
    /\ Len(global_feed) < MaxGlobal
    /\ global_feed' = broadcast_global(global_feed, ChainEvent(Len(global_feed) + 1))
    /\ UNCHANGED <<authVars, clients, rooms, pc, user_address, authenticated, req,
                   res, frames, rooms_to_leave, removeCalls, joined, spawned,
                   sent, lockVars, mailVars, logs, listener, global_next,
                   global_seen, global_lagged>>

GlobalStep ==
    \/ BroadcastGlobal
    \/ \E c \in Conns : Welcome(c) \/ GlobalRecv(c) \/ Disconnect(c) \/ CleanupRemove(c)

NextGlobal == GlobalStep /\ TrackShared

\* the global channel: a publisher and the connections that receive from it,
\* each at its own pace
SpecGlobal == Init /\ [][NextGlobal]_vars


(* ------------------------ the feed and the loop ----------------------- *)

\* the frames of the feed specification: one that does not parse, a ping,
\* and a rightly signed authenticate command
FeedFrames ==
    {[NoReq EXCEPT !.type = "Malformed"], [NoReq EXCEPT !.type = "Ping"],
     [NoReq EXCEPT !.type = "SimpleAuth", !.nonce = "n1", !.addr = "0xA",
                   !.sig = "ok"]}

\* the steps of a connection task that end an await of its own: a send to
\* its client, a round trip to the store, a registry call
FeedTask(c) ==
    \/ Welcome(c)
    \/ NonceExists(c) \/ NonceDel(c) \/ Report(c)
    \/ AuthAdd(c) \/ AuthSub(c) \/ AuthSend(c) \/ AuthJoin(c) \/ AuthBcast(c)
    \/ Ping(c) \/ Forward(c)
    \/ CleanupRemove(c) \/ \E r \in Rooms : CleanupLeave(c, r)

FeedPublish == Len(global_feed) < MaxFeed /\ BroadcastGlobal

FeedStep ==
    \/ Issue
    \/ FeedPublish
    \/ \E c \in Conns :
          \/ \E f \in FeedFrames : RecvFrame(c, f, MaxFeedFrames)
          \/ FeedTask(c)
          \/ GlobalRecv(c)
          \/ Disconnect(c)

NextFeed == FeedStep /\ TrackShared

\* connections that authenticate or not, handle frames and forward the
\* global feed. An await of a task's own ends, and select polls an arm that
\* stays ready; frames and disconnects come when the client pleases
SpecFeed ==
    /\ Init /\ [][NextFeed]_vars
    /\ \A c \in Conns : WF_vars(FeedTask(c) /\ TrackShared)
    /\ \A c \in Conns : WF_vars(GlobalRecv(c) /\ TrackShared)


(* ----------------------------- properties ----------------------------- *)

\* C1: of the authentication attempts that present one issued challenge with
\* valid signatures, whatever their scheme, their caller and their
\* interleaving, at most one succeeds.
C1_AtMostOneSuccess == \A n \in Nonces : okCount[n] <= 1

\* an outcome that is the error err, as returned by the verification or as
\* wrapped by handle_siwe_authentication
FailedWith(out, err) ==
    \/ out.kind = err
    \/ out.kind = "AuthenticationFailed" /\ out.detail = err

\* C2: a verification that finds its challenge in the store and whose
\* signature is valid succeeds; every verification that looks the challenge
\* up after one has succeeded with it fails with InvalidNonce.
C2_SucceedsOnceThenInvalidNonce ==
    [][\A k \in Callers :
          /\ (pc[k] = "nonce_exists" /\ pc'[k] # "nonce_exists"
                /\ req[k].nonce \in store /\ verify_result(req[k]) = "Ok")
             => pc'[k] = "nonce_del"
          /\ (pc[k] = "nonce_del" /\ pc'[k] # "nonce_del"
                /\ verify_result(req[k]) = "Ok")
             => /\ okCount'[req[k].nonce] = okCount[req[k].nonce] + 1
                /\ req[k].nonce \notin store'
                /\ IF k \in Conns THEN pc'[k] = "auth_add"
                   ELSE res'[k].kind = "Ok"
          /\ (pc[k] = "nonce_exists" /\ pc'[k] # "nonce_exists"
                /\ okCount[req[k].nonce] > 0)
             => /\ pc'[k] = "report"
                /\ FailedWith(res'[k], "InvalidNonce")
                /\ okCount'[req[k].nonce] = okCount[req[k].nonce]
      ]_vars

\* C2 witness: a challenge has authenticated one request, and a later attempt
\* that presented it is being told InvalidNonce
C2_Witness ==
    \E k \in Callers :
       /\ pc[k] = "report"
       /\ FailedWith(res[k], "InvalidNonce")
       /\ res[k].nonce \in issued
       /\ okCount[res[k].nonce] = 1

\* no registry call is in progress
AllAtRest == \A k \in Callers : pc[k] \in AtRest

\* C3: after any interleaving of join, leave, add and remove calls, whenever
\* an address is in a room's member set there is a session for the address
\* and its joined-room set contains the room.
C3_NoOrphanedMembership ==
    AllAtRest =>
       \A r \in DOMAIN rooms : \A a \in rooms[r].users :
          a \in DOMAIN clients /\ r \in clients[a].current_rooms

\* C4: for every session of the registry and every room of its joined-room
\* set, the room exists and the session's address is in its member set.
C4_SessionRoomsAreMemberships ==
    \A a \in DOMAIN clients : \A r \in clients[a].current_rooms :
       r \in DOMAIN rooms /\ a \in rooms[r].users

\* C4 witness: a session that has joined the default room and another room
C4_Witness ==
    \E a \in DOMAIN clients :
       /\ clients[a].current_rooms = {"general", "r1"}
       /\ a \in rooms["general"].users /\ a \in rooms["r1"].users

\* C5: no interleaving of registry and router operations reaches a state in
\* which tasks wait forever on each other's guards: never does a task wait
\* for a guard while every task that holds a guard waits too.
C5_NoGuardDeadlock ==
    ~ \E t \in Tasks :
         /\ Waiting(t)
         /\ \A u \in Tasks : Holding(u) => Waiting(u)

\* the user-left events for address a in a history of room r
LeftEvents(h, a, r) == Cardinality({i \in 1..Len(h) : h[i] = user_left(a, r)})

\* C6: the disconnect of an authenticated connection publishes exactly one
\* user-left event to each room its session had joined: every room-leave of
\* the cleanup adds one such event to the room's history.
C6_OneLeaveEventPerRoom ==
    [][\A c \in Conns : \A r \in Rooms :
          (pc[c] = "removing" /\ r \in rooms_to_leave[c]
             /\ r \notin rooms_to_leave'[c])
          => LeftEvents(rooms'[r].message_history, user_address[c], r)
               = LeftEvents(rooms[r].message_history, user_address[c], r) + 1
      ]_vars

C8_ExactlyOneRemoveCall ==
    \A c \in Conns :
       pc[c] \in {"closed", "panicked"}
       => removeCalls[c] = IF user_address[c] # None THEN 1 ELSE 0

\* C9: every room's history has at most 100 entries.
C9_HistoryAtMost100 ==
    \A r \in DOMAIN rooms : Len(rooms[r].message_history) <= 100

\* C9 witness: a full history after more publishes than it holds
C9_Witness ==
    /\ Len(sent) > max_history
    /\ Len(rooms["general"].message_history) = max_history

\* the last n entries of s, or all of s
LastN(s, n) == IF Len(s) <= n THEN s ELSE SubSeq(s, Len(s) - n + 1, Len(s))

\* C10: after n publishes to an empty room its history is the last
\* min(n, 100) published messages, in the order of their publishing.
C10_HistoryIsLastPublished ==
    rooms["general"].message_history = LastN(sent, 100)

\* C10 witness: 150 publishes, of which the 51st is the oldest kept
C10_Witness ==
    /\ Len(sent) = 150
    /\ Len(rooms["general"].message_history) = 100
    /\ rooms["general"].message_history[1] = nth_text(51)
    /\ rooms["general"].message_history[100] = nth_text(150)

\* the commands that are no authenticate command
RoomCommands == {f \in RoomFrames : f.type # "Malformed"}

NotAuthenticated == Outcome("AuthenticationFailed", "Not authenticated", NoNonce)
AlreadyAuthenticated ==
    Outcome("AuthenticationFailed", "Already authenticated", NoNonce)

\* C11: on an Unauthenticated connection every send-text, join-room,
\* leave-room and ping command fails with AuthenticationFailed("Not
\* authenticated"); the error goes to the client without ending the loop, the
\* connection stays Unauthenticated, and sessions, rooms, histories and
\* mailboxes are unchanged.
C11_CommandsRefusedBeforeAuth ==
    [][\A c \in Conns :
          /\ \A f \in RoomCommands :
                (~authenticated[c] /\ RecvFrame(c, f, MaxFrames))
                => /\ pc'[c] = "report"
                   /\ res'[c] = NotAuthenticated
                   /\ ~authenticated'[c] /\ user_address'[c] = None
                   /\ UNCHANGED <<clients, rooms, mailVars>>
          /\ (pc[c] = "report" /\ res[c] = NotAuthenticated /\ pc'[c] # "report")
             => /\ pc'[c] \in {"loop", "cleanup"}
                /\ ~authenticated'[c] /\ user_address'[c] = None
                /\ UNCHANGED <<clients, rooms>>
      ]_vars

\* C11 witness: a connection that never authenticated is being told Not
\* authenticated while another connection has a session in a room
C11_Witness ==
    \E c \in Conns :
       /\ pc[c] = "report" /\ res[c] = NotAuthenticated
       /\ ~authenticated[c]
       /\ \E a \in DOMAIN clients : clients[a].current_rooms # {}

\* C12: an authenticate command of either scheme on an Authenticated
\* connection fails with AuthenticationFailed("Already authenticated") and
\* changes nothing else: no challenge is consumed, and the registry, the
\* connection's address and its mailbox subscription stay as they are.
C12_ReauthenticationRefused ==
    [][\A c \in Conns : \A f \in AuthFrames :
          (authenticated[c] /\ RecvFrame(c, f, MaxFrames))
          => /\ pc'[c] = "report"
             /\ res'[c] = AlreadyAuthenticated
             /\ UNCHANGED <<store, okCount, clients, rooms, user_address,
                            authenticated, mailVars>>
      ]_vars

\* C12 witness: an Authenticated, subscribed connection is being told Already
\* authenticated while an issued challenge is still in the store
C12_Witness ==
    \E c \in Conns :
       /\ pc[c] = "report" /\ res[c] = AlreadyAuthenticated
       /\ authenticated[c] /\ client_receiver[c] # None
       /\ store # {}

\* the outcomes with which an authenticate command fails
AuthFailures == {"InvalidNonce", "InvalidSignature", "InvalidRequest"}

\* C13: when an authenticate command fails on an Unauthenticated connection
\* the failure goes to the client without ending the loop, the connection
\* stays Unauthenticated and unsubscribed, and no step of the attempt changes
\* a session or a room.
C13_FailedAuthChangesNothing ==
    [][\A c \in Conns :
          /\ (~authenticated[c]
                /\ \/ /\ \E f \in AuthFrames : RecvFrame(c, f, MaxAttempts)
                      /\ pc'[c] # "nonce_exists"
                   \/ pc[c] = "nonce_exists"
                      /\ pc'[c] \notin {"nonce_exists", "nonce_del"}
                   \/ pc[c] = "nonce_del"
                      /\ pc'[c] \notin {"nonce_del", "auth_add"})
             => /\ pc'[c] = "report"
                /\ \E e \in AuthFailures : FailedWith(res'[c], e)
                /\ ~authenticated'[c] /\ user_address'[c] = None
                /\ client_receiver'[c] = None
                /\ UNCHANGED <<clients, rooms>>
          /\ (pc[c] = "nonce_exists" /\ pc'[c] = "nonce_del")
             => UNCHANGED <<clients, rooms>>
          /\ (pc[c] = "report" /\ ~authenticated[c] /\ pc'[c] # "report")
             => /\ pc'[c] \in {"loop", "cleanup"}
                /\ ~authenticated'[c] /\ user_address'[c] = None
                /\ UNCHANGED <<clients, rooms>>
      ]_vars

\* C13 witness: an issued challenge was consumed by an attempt whose
\* signature is wrong; the connection is being told so and has no session
C13_Witness ==
    \E c \in Conns :
       /\ pc[c] = "report" /\ FailedWith(res[c], "InvalidSignature")
       /\ res[c].nonce \in issued /\ res[c].nonce \notin store
       /\ ~authenticated[c]
       /\ \A a \in DOMAIN clients : clients[a].id # c

\* the session of a connection's address exists and has not joined the room
NotJoined(c, room) ==
    /\ user_address[c] \in DOMAIN clients
    /\ room \notin clients[user_address[c]].current_rooms

SendTexts == {f \in RoomFrames : f.type = "SendText"}

\* C14 as stated: a send-text command naming a room that the sender's
\* session has not joined fails with AuthorizationFailed, whatever its text,
\* and appends nothing to a history and delivers nothing to a mailbox.
C14_UnjoinedRoomRefused ==
    [][\A c \in Conns :
          /\ \A f \in SendTexts :
                (authenticated[c] /\ NotJoined(c, f.room)
                   /\ RecvFrame(c, f, MaxFrames))
                => /\ pc'[c] = "report" => res'[c].kind = "AuthorizationFailed"
                   /\ UNCHANGED <<rooms, mailbox, spawned>>
          /\ (pc[c] = "send_get" /\ pc'[c] # "send_get"
                /\ NotJoined(c, req[c].room))
             => /\ pc'[c] = "report"
                /\ res'[c].kind = "AuthorizationFailed"
                /\ UNCHANGED <<rooms, mailbox, spawned>>
      ]_vars

\* C14 amended: a send-text command with blank or over-long text fails with
\* InvalidRequest whatever its room; one with valid text naming a room that
\* the sender's session has not joined fails with AuthorizationFailed; both
\* append nothing to a history and deliver nothing to a mailbox.
C14_UnjoinedRoomRefusedValidText ==
    [][\A c \in Conns :
          /\ \A f \in SendTexts :
                (authenticated[c] /\ RecvFrame(c, f, MaxFrames))
                => /\ IF text_error(f.text) = ""
                      THEN pc'[c] = "send_get"
                      ELSE pc'[c] = "report" /\ res'[c].kind = "InvalidRequest"
                   /\ UNCHANGED <<rooms, mailbox, spawned>>
          /\ (pc[c] = "send_get" /\ pc'[c] # "send_get"
                /\ NotJoined(c, req[c].room))
             => /\ pc'[c] = "report"
                /\ res'[c] = Outcome("AuthorizationFailed", "User not in room", NoNonce)
                /\ UNCHANGED <<rooms, mailbox, spawned>>
      ]_vars

\* C14 witness: a connection whose session is in the default room only is
\* being told AuthorizationFailed
C14_Witness ==
    \E c \in Conns :
       /\ pc[c] = "report"
       /\ res[c] = Outcome("AuthorizationFailed", "User not in room", NoNonce)
       /\ user_address[c] \in DOMAIN clients
       /\ clients[user_address[c]].current_rooms = {"general"}

\* C15: when the handler of a successful authenticate command returns, the
\* connection is Authenticated and subscribed to a mailbox, the registry has
\* a session for its address, the address is a member of "general" and
\* "general" is in the session's joined-room set.
C15_AuthenticatedAndJoined ==
    [][\A c \in Conns :
          (pc[c] = "auth_bcast" /\ pc'[c] = "loop")
          => /\ authenticated'[c]
             /\ client_receiver'[c] # None
             /\ user_address'[c] \in DOMAIN clients'
             /\ "general" \in clients'[user_address'[c]].current_rooms
             /\ user_address'[c] \in rooms'["general"].users
      ]_vars

\* the roster messages of ServerMessage
RosterTypes == {"OnlineUsers", "RoomUsers"}

\* C16: when the handler of a successful authenticate command returns, the
\* history of the default room holds the connection's user-joined event and,
\* after it, a roster of the room.
C16_JoinedThenRoster ==
    [][\A c \in Conns :
          (pc[c] = "auth_bcast" /\ pc'[c] = "loop")
          => LET h == rooms'["general"].message_history
             IN \E i \in 1..Len(h) : \E j \in (i + 1)..Len(h) :
                   /\ h[i] = user_joined(user_address[c], "general")
                   /\ h[j].type \in RosterTypes /\ h[j].room = "general"
      ]_vars

\* the positions at which a connection task has ended
Ended == {"closed", "returned", "panicked"}

\* C17: a connection only moves forward: once Authenticated it stays so, the
\* address bound to it never changes, and once its task has ended it takes no
\* step and its state stays as it is.
C17_ForwardOnly ==
    [][\A c \in Conns :
          /\ authenticated[c] => authenticated'[c]
          /\ user_address[c] # None => user_address'[c] = user_address[c]
          /\ authenticated[c] => user_address[c] # None
          /\ pc[c] \in Ended
             => /\ pc'[c] = pc[c]
                /\ req'[c] = req[c] /\ res'[c] = res[c]
                /\ client_receiver'[c] = None /\ mailbox'[c] = mailbox[c]
                /\ removeCalls'[c] = removeCalls[c]
      ]_vars

\* C17 witness: a connection that authenticated has closed, still bound to
\* its address, while the other connection is at work
C17_Witness ==
    \E c \in Conns :
       /\ pc[c] = "closed" /\ authenticated[c] /\ user_address[c] # None
       /\ \E d \in Conns \ {c} : pc[d] \notin AtRest

\* C18: while a connection is Unauthenticated it has no mailbox subscription
\* and nothing to forward, and no step it takes changes a room's members or
\* history or spawns a publish.
C18_UnauthenticatedIsInert ==
    [][\A c \in Conns :
          ~authenticated[c]
          => /\ client_receiver[c] = None /\ mailbox[c] = 0
             /\ mailbox'[c] >= mailbox[c]
             /\ pc'[c] # pc[c] => UNCHANGED <<rooms, spawned>>
      ]_vars

\* C18 witness: an open Unauthenticated connection with an empty mailbox
\* next to an Authenticated one whose mailbox holds a room's message
C18_Witness ==
    \E c \in Conns : \E d \in Conns \ {c} :
       /\ pc[c] = "loop" /\ ~authenticated[c] /\ mailbox[c] = 0
       /\ frames > 1
       /\ authenticated[d] /\ mailbox[d] > 1
       /\ rooms["general"].message_history # <<>>

\* the magnitude of a signed delta field
Magnitude(x) == IF x < 0 THEN -x ELSE x

\* both magnitudes of a log are strictly below the threshold
Immaterial(lg) ==
    Magnitude(lg.amount_0) < threshold /\ Magnitude(lg.amount_1) < threshold

\* C19: a decoded swap log is handled without a publish exactly when both
\* magnitudes are strictly below the threshold: it is discarded if they are,
\* and published if either is at or above it.
C19_DiscardedIffImmaterial ==
    \A l \in Listeners : \A k \in 1..Len(listener[l].results) :
       LET r == listener[l].results[k]
       IN IF Immaterial(logs[r.log])
          THEN r.result = "discarded"
          ELSE r.result = "published"

\* the ChainEvent messages on the global feed for log i, and those forwarded
\* to the client of connection c
FeedCount(i) ==
    Cardinality({k \in 1..Len(global_feed) : global_feed[k].log = i})
SeenCount(c, i) ==
    Cardinality({k \in 1..Len(global_seen[c]) : global_seen[c][k] = i})

\* the stream of no running listener still holds log i
Handled(i) ==
    \A l \in Listeners :
       \A k \in 1..Len(listener[l].stream) : listener[l].stream[k] # i

\* C20: a log with a magnitude at or above the threshold (and within the
\* range of u128) is never published twice on the global feed nor forwarded
\* twice to a connection, and once the running server has handled it it has
\* been published exactly once.
C20_PublishedExactlyOnce ==
    \A i \in 1..Len(logs) :
       (~Immaterial(logs[i])
          /\ Magnitude(logs[i].amount_0) <= U128_MAX
          /\ Magnitude(logs[i].amount_1) <= U128_MAX)
       => /\ FeedCount(i) <= 1
          /\ \A c \in Conns : SeenCount(c, i) <= 1
          /\ (Handled(i) /\ \E l \in Listeners : listener[l].results # <<>>)
             => FeedCount(i) = 1

\* C21: a challenge whose 300 seconds ran out before any verification
\* consumed it is absent from the store and stays absent, and every
\* verification that looks it up from then on fails with InvalidNonce and
\* authenticates nobody, whatever its signature.
C21_ExpiredChallengeIsInvalidNonce ==
    [][/\ expired' \cap store' = {}
       /\ \A k \in Callers :
             (pc[k] = "nonce_exists" /\ pc'[k] # "nonce_exists"
                /\ req[k].nonce \in expired)
             => /\ pc'[k] = "report"
                /\ FailedWith(res'[k], "InvalidNonce")
                /\ okCount' = okCount
      ]_vars

\* C21 witness: a verification with a valid signature is looking up a
\* challenge that expired before anything consumed it
C21_Witness ==
    \E k \in Callers :
       /\ pc[k] = "nonce_exists"
       /\ req[k].nonce \in expired
       /\ okCount[req[k].nonce] = 0
       /\ verify_result(req[k]) = "Ok"

\* what a receiver that missed nothing has been given up to its cursor
AllUpTo(n) == [i \in 1..(n - 1) |-> i]

\* C22: broadcast_global can always publish, whatever its receivers have
\* read; a receiver that fell more than the capacity behind is told how
\* many messages it missed, misses exactly the overwritten ones, its oldest
\* unread, and stays in its loop; the step changes nothing for the publisher
\* or for another receiver, and a receiver that never lagged was given
\* every message in order.
C22_LaggedReceiverLosesOnlyItsOldest ==
    [][/\ Len(global_feed) < MaxGlobal => ENABLED BroadcastGlobal
       /\ \A c \in Conns :
             /\ (global_next'[c] # global_next[c]
                   /\ global_next[c] < oldest_retained(global_feed))
                => /\ global_next'[c] = oldest_retained(global_feed)
                   /\ global_lagged'[c] - global_lagged[c]
                         = global_next'[c] - global_next[c]
                   /\ pc'[c] = "loop"
                   /\ global_feed' = global_feed
                   /\ \A d \in Conns \ {c} :
                         /\ pc'[d] = pc[d]
                         /\ global_next'[d] = global_next[d]
                         /\ global_seen'[d] = global_seen[d]
                         /\ global_lagged'[d] = global_lagged[d]
             /\ (pc'[c] = "loop" /\ global_lagged'[c] = 0)
                => global_seen'[c] = AllUpTo(global_next'[c])
      ]_vars

\* C22 witness: one receiver lagged, was told, and has since forwarded a
\* message, while the other was given everything that was published
C22_Witness ==
    \E c \in Conns : \E d \in Conns \ {c} :
       /\ pc[c] = "loop" /\ global_lagged[c] > 0 /\ global_seen[c] # <<>>
       /\ pc[d] = "loop" /\ global_lagged[d] = 0
       /\ Len(global_feed) > global_capacity
       /\ global_seen[d] = AllUpTo(Len(global_feed) + 1)

\* text that does not parse as a ClientMessage
Malformed == [NoReq EXCEPT !.type = "Malformed"]

\* C23: a frame that parses as no command makes the handler return
\* SerializationError before it reads or writes anything: the error is for
\* that connection alone, the connection's flags and subscription, the
\* sessions, the rooms and every mailbox are as before, and once the error
\* is sent the connection is back in its loop (a failed send ends it).
C23_MalformedFrameOnlyReported ==
    [][\A c \in Conns :
          /\ RecvFrame(c, Malformed, MaxFrames)
             => /\ pc'[c] = "report"
                /\ res'[c].kind = "SerializationError"
                /\ \A d \in Conns \ {c} : res'[d] = res[d] /\ pc'[d] = pc[d]
                /\ UNCHANGED <<authenticated, user_address, client_receiver,
                               clients, rooms, mailbox, spawned>>
          /\ (pc[c] = "report" /\ res[c].kind = "SerializationError"
                /\ pc'[c] # "report")
             => /\ pc'[c] \in {"loop", "cleanup"}
                /\ res'[c] = NoRes
                /\ UNCHANGED <<authenticated, user_address, clients, rooms>>
      ]_vars

\* C23 witness: an Authenticated connection whose session is in a room with
\* history is being told that its frame did not parse
C23_Witness ==
    \E c \in Conns :
       /\ pc[c] = "report" /\ res[c].kind = "SerializationError"
       /\ authenticated[c]
       /\ user_address[c] \in DOMAIN clients
       /\ clients[user_address[c]].current_rooms # {}
       /\ rooms["general"].message_history # <<>>

\* C24: every ping handled by an Authenticated connection adds a pong to the
\* mailbox that this connection's own client_receiver reads.
C24_PongInOwnMailbox ==
    [][\A c \in Conns :
          (pc[c] = "ping" /\ pc'[c] # "ping")
          => mailbox'[c] = mailbox[c] + 1
      ]_vars

\* C25: the room "general" is in the room map from the start, and no step
\* of any operation takes a room out of the map: the set of room names only
\* grows.
C25_RoomsAreNeverDeleted ==
    /\ "general" \in DOMAIN rooms
    /\ [][DOMAIN rooms \subseteq DOMAIN rooms']_vars

\* C25 witness: every member has left the default room and a room created
\* by a join, a connection has been cleaned up, and both rooms are in the map
C25_Witness ==
    /\ DOMAIN rooms = Rooms
    /\ \A r \in Rooms : rooms[r].users = {} /\ rooms[r].message_history # <<>>
    /\ \E c \in Conns : pc[c] = "closed" /\ removeCalls[c] = 1

\* a connection that is Authenticated and whose loop has not ended
OpenSession(d) ==
    authenticated[d] /\ pc[d] \notin Ended \cup {"cleanup", "removing"}

\* C26: no step of the disconnect and cleanup of one connection removes the
\* session, changes the room membership or touches the mailbox of another
\* connection that is still open, even one authenticated as the same
\* address.
C26_CleanupTouchesOnlyItsOwn ==
    [][\A c \in Conns :
          (Disconnect(c) \/ CleanupRemove(c) \/ \E r \in Rooms : CleanupLeave(c, r))
          => \A d \in Conns \ {c} :
                OpenSession(d)
                => /\ user_address[d] \in DOMAIN clients
                        => user_address[d] \in DOMAIN clients'
                   /\ \A r \in DOMAIN rooms :
                         user_address[d] \in rooms[r].users
                         => user_address[d] \in rooms'[r].users
                   /\ client_receiver'[d] = client_receiver[d]
                   /\ mailbox'[d] = mailbox[d]
      ]_vars

\* C27: handling a log that does not decode publishes nothing and leaves
\* the listener running with the rest of its stream as it was; every
\* listener handles the logs of its stream in order with no log passed
\* over, so the log after one that did not decode is handled next.
C27_UndecodableLogIsSkipped ==
    [][\A l \in Listeners :
          /\ (listener[l].pc = "running" /\ listener[l].stream # <<>>
                /\ ~logs[Head(listener[l].stream)].decodes
                /\ listener'[l].results # listener[l].results)
             => /\ global_feed' = global_feed
                /\ listener'[l].pc = "running"
                /\ listener'[l].stream = Tail(listener[l].stream)
                /\ listener'[l].results =
                      Append(listener[l].results,
                             [log |-> Head(listener[l].stream), result |-> "skipped"])
          /\ \A k \in 2..Len(listener'[l].results) :
                listener'[l].results[k].log = listener'[l].results[k - 1].log + 1
      ]_vars

\* C27 witness: a listener skipped a log that did not decode and then
\* published the log that followed it
C27_Witness ==
    \E l \in Listeners : \E k \in 2..Len(listener[l].results) :
       /\ listener[l].results[k - 1].result = "skipped"
       /\ listener[l].results[k].result = "published"
       /\ \E j \in 1..Len(global_feed) :
             global_feed[j].log = listener[l].results[k].log

\* a task holds one guard and is yet to acquire the other
HoldsFirst(t) == Cardinality(task[t].held) = 1 /\ task[t].todo # <<>>

\* C28: the operations that hold both guards acquire them in one fixed
\* order: whenever two tasks each hold one guard and are about to acquire
\* the other, they hold the same guard.
C28_OneGuardOrder ==
    \A t \in Tasks : \A u \in Tasks :
       (HoldsFirst(t) /\ HoldsFirst(u)) => task[t].held = task[u].held

\* connection c reads the mailbox of the session of a member of room r
ReadsMemberMailbox(c, r) ==
    \E a \in rooms[r].users \cap DOMAIN clients : clients[a].id = client_receiver[c]

\* C29: a publish to an existing room appends the message to that room's
\* history and to no other, changes no member set and no session, and adds
\* one message to the mailbox of the session of every member that has one,
\* as read by the connections subscribed to it, and to no other mailbox; a
\* publish that is due can run whatever the mailboxes hold.
C29_PublishReachesExactlyMemberSessions ==
    [][/\ \A r \in DOMAIN rooms :
             rooms'[r].message_history # rooms[r].message_history
             => /\ Len(rooms'[r].message_history) > 0
                /\ rooms'[r].message_history =
                      push_history(rooms[r].message_history,
                                   rooms'[r].message_history[Len(rooms'[r].message_history)])
                /\ rooms'[r].users = rooms[r].users
                /\ DOMAIN rooms' = DOMAIN rooms
                /\ \A q \in DOMAIN rooms \ {r} : rooms'[q] = rooms[q]
                /\ clients' = clients
                /\ \A c \in Conns :
                      mailbox'[c] = mailbox[c] + IF ReadsMemberMailbox(c, r) THEN 1 ELSE 0
       /\ \A i \in 1..Len(spawned) : ENABLED RunSpawned(i)
       /\ \A c \in Conns :
             /\ pc[c] = "auth_bcast" => ENABLED AuthBcast(c)
             /\ pc[c] = "join_bcast" => ENABLED JoinBcast(c)
      ]_vars

\* C29 witness: a message was published to a room one Authenticated
\* connection's session is a member of and another's is not, and the
\* member's mailbox holds more than the other's
C29_Witness ==
    \E c \in Conns : \E d \in Conns \ {c} :
       /\ "r1" \in DOMAIN rooms /\ rooms["r1"].message_history # <<>>
       /\ pc[c] = "loop" /\ pc[d] = "loop"
       /\ authenticated[c] /\ authenticated[d]
       /\ user_address[c] \in rooms["r1"].users
       /\ user_address[d] \notin rooms["r1"].users
       /\ ReadsMemberMailbox(c, "r1") /\ ~ReadsMemberMailbox(d, "r1")
       /\ mailbox[c] > mailbox[d]

\* the broadcast tasks that connection c's accepted texts spawned and that
\* have not run yet
PendingOf(c) ==
    {i \in 1..Len(spawned) :
        spawned[i].message.from = short_address(user_address[c])}

\* C30: the handler of an accepted send-text command returns to the loop
\* having only spawned the publish: no room and no mailbox has changed; and
\* while a publish is pending the connection can take its next frame, and
\* the pending publish can run.
C30_PublishIsSpawned ==
    [][\A c \in Conns :
          /\ (pc[c] = "send_get" /\ pc'[c] = "loop")
             => /\ spawned' = Append(spawned,
                       [room |-> req[c].room,
                        message |-> new_text(short_address(user_address[c]),
                                             req[c].text, req[c].room)])
                /\ UNCHANGED <<rooms, clients, mailbox>>
          /\ (pc[c] = "loop" /\ spawned # <<>> /\ frames < MaxFrames)
             => /\ ENABLED RecvFrame(c, [NoReq EXCEPT !.type = "Ping"], MaxFrames)
                /\ ENABLED RunSpawned(1)
      ]_vars

\* C30 witness: a connection is already handling the command after its
\* accepted text while the publish of that text has not run
C30_Witness ==
    \E c \in Conns :
       /\ pc[c] = "ping"
       /\ authenticated[c]
       /\ PendingOf(c) # {}
       /\ \A r \in DOMAIN rooms :
             \A k \in 1..Len(rooms[r].message_history) :
                rooms[r].message_history[k].type # "NewText"

\* C31: add_client for address a leaves one session under a, a new one: its
\* joined-room set is empty, its channel is one no connection is subscribed
\* to and is not the channel of the session it replaces; the sessions of the
\* other addresses, every room and every mailbox are as before.
C31_AddClientReplacesSession ==
    [][\A c \in Conns :
          (pc[c] = "auth_add" /\ pc'[c] # "auth_add")
          => LET a == req[c].addr
             IN /\ DOMAIN clients' = DOMAIN clients \cup {a}
                /\ clients'[a].user_address = a
                /\ clients'[a].current_rooms = {}
                /\ \A d \in Conns : client_receiver'[d] # clients'[a].id
                /\ a \in DOMAIN clients => clients'[a].id # clients[a].id
                /\ \A b \in DOMAIN clients \ {a} : clients'[b] = clients[b]
                /\ UNCHANGED <<rooms, mailbox, client_receiver>>
      ]_vars

\* C31 witness: add_client has just replaced the session of an address that
\* another open connection holds and that had joined a room
C31_Witness ==
    \E c \in Conns : \E d \in Conns \ {c} :
       /\ pc[c] = "auth_sub"
       /\ clients[req[c].addr].id = c
       /\ clients[req[c].addr].current_rooms = {}
       /\ authenticated[d] /\ user_address[d] = req[c].addr /\ pc[d] = "loop"
       /\ req[c].addr \in rooms["general"].users

Gone == {"returned", "cleanup", "removing", "closed", "panicked"}

Unparsable == [NoReq EXCEPT !.type = "Authenticate", !.parse = "bad"]

\* C34: a structured statement that parses neither as it stands nor after
\* the normalization pass fails with InvalidSignature, on a connection and
\* at the login endpoint, without a lookup: the store and the count of
\* successful verifications are as before.
C34_UnparsableStatementTouchesNoChallenge ==
    [][/\ \A c \in Conns :
             (~authenticated[c] /\ RecvFrame(c, Unparsable, MaxAttempts))
             => /\ pc'[c] = "report"
                /\ FailedWith(res'[c], "InvalidSignature")
                /\ UNCHANGED <<store, okCount, expired>>
       /\ \A h \in Logins :
             RecvLogin(h, Unparsable)
             => /\ pc'[h] = "report"
                /\ FailedWith(res'[h], "InvalidSignature")
                /\ UNCHANGED <<store, okCount, expired>>
      ]_vars

\* C34 witness: with an issued challenge in the store, a caller is being
\* told InvalidSignature for a statement that carried no challenge
C34_Witness ==
    \E k \in Callers :
       /\ pc[k] = "report"
       /\ FailedWith(res[k], "InvalidSignature")
       /\ res[k].nonce = NoNonce
       /\ store # {}

\* C35: in both schemes an attempt that found its challenge and then fails
\* on the signature or on the claimed address has deleted the challenge; a
\* deleted challenge stays deleted, and every attempt that looks it up
\* afterwards fails with InvalidNonce, whatever its signature.
C35_ChallengeConsumedBeforeSignature ==
    [][/\ \A k \in Callers :
             /\ (pc[k] = "nonce_del" /\ pc'[k] # "nonce_del"
                   /\ verify_result(req[k]) # "Ok")
                => /\ pc'[k] = "report"
                   /\ \/ FailedWith(res'[k], "InvalidSignature")
                      \/ FailedWith(res'[k], "InvalidRequest")
                   /\ req[k].nonce \notin store'
                   /\ okCount' = okCount
             /\ (pc[k] = "nonce_exists" /\ pc'[k] # "nonce_exists"
                   /\ req[k].nonce \in issued \ store)
                => /\ pc'[k] = "report"
                   /\ FailedWith(res'[k], "InvalidNonce")
                   /\ okCount' = okCount
       /\ \A n \in issued : n \notin store => n \notin store'
      ]_vars

\* C35 witness: a rightly signed attempt is looking up a challenge that
\* neither expired nor authenticated anyone: a failed attempt consumed it
C35_Witness ==
    \E k \in Callers :
       /\ pc[k] = "nonce_exists"
       /\ verify_result(req[k]) = "Ok"
       /\ req[k].nonce \in issued \ (store \cup expired)
       /\ okCount[req[k].nonce] = 0
       /\ \A j \in Callers \ {k} : pc[j] \notin {"nonce_exists", "nonce_del"}

\* C36: every connection that is Authenticated and whose loop has not
\* ended has a session under its address, and the mailbox it is subscribed
\* to is the mailbox of that session.
C36_AuthenticatedHasItsSession ==
    \A c \in Conns :
       OpenSession(c)
       => /\ user_address[c] \in DOMAIN clients
          /\ clients[user_address[c]].id = client_receiver[c]

\* the pending publishes without the i-th
WithoutNth(q, i) == SubSeq(q, 1, i - 1) \o SubSeq(q, i + 1, Len(q))

\* C37: the texts one connection sent to one room are published in the
\* order in which the connection received them: no pending publish runs
\* while an earlier accepted text of the same sender for the same room is
\* still pending.
C37_TextsPublishedInOrder ==
    [][\A i \in 1..Len(spawned) :
          (spawned' = WithoutNth(spawned, i)
             /\ rooms' = broadcast_to_room_rooms(rooms, spawned[i].room,
                                                 spawned[i].message))
          => \A j \in 1..(i - 1) :
                ~ /\ spawned[j].room = spawned[i].room
                  /\ spawned[j].message.from = spawned[i].message.from
                  /\ spawned[j].message # spawned[i].message
      ]_vars

\* C38: a leave-room command for a room the sender's session has not joined
\* publishes no user-left event to that room: when leave_room finds the sender
\* absent from the members of the room, the handler does not go on to the
\* broadcast of user_left.
C38_LeaveOfNonMemberPublishesNothing ==
    [][\A c \in Conns :
          (/\ Leave(c)
           /\ req[c].room \in DOMAIN rooms
           /\ user_address[c] \notin rooms[req[c].room].users)
          => pc'[c] # "leave_bcast"
      ]_vars

\* C39: a connection that authenticates successfully never misses its
\* auth-success message: the step that sends AuthSuccess, which comes after
\* the subscription and before the auto-join of "general", puts one message
\* in the mailbox of the connection that authenticated.
C39_AuthSuccessInOwnMailbox ==
    [][\A c \in Conns :
          AuthSend(c) => mailbox'[c] = mailbox[c] + 1
      ]_vars

====
